---- MODULE Spec2Model ----
(***************************************************************************)
(* Model of nets/utils/dataset_util.py: read_examples_list,                *)
(* recursive_parse_xml_to_dict and the read_dataset input pipeline         *)
(* (shard -> repeat -> shuffle -> interleave -> shuffle -> map ->          *)
(* prefetch).  The tf.data stages the pipeline chains are modelled by      *)
(* their iterator semantics: shard keeps positions by modulus; repeat      *)
(* restarts its input; shuffle fills a bounded buffer and yields any       *)
(* element of it; interleave cycles over cycle_length slots and requires   *)
(* cycle_length > 0; map keeps the order and yields a failure of its       *)
(* function as the status of that element; prefetch is a FIFO buffer.      *)
(***************************************************************************)
EXTENDS Integers, Sequences, FiniteSets, Bags, TLC

VARIABLES
  pc,          \* position of the caller: "start", "done" / pipeline phases
  content,     \* read_examples_list: the characters of the file at `path`
  examples,    \* read_examples_list: the returned list
  xml,         \* recursive_parse_xml_to_dict: the argument node
  parsed,      \* recursive_parse_xml_to_dict: the returned dict
  input_files, \* read_dataset: the list of patterns (each by the files it matches)
  num_workers, \* read_dataset: number of shards
  worker_index,\* read_dataset: this worker's shard
  config,      \* read_dataset: the InputReader configuration
  bad,         \* the records on which decode_func raises
  filenames,   \* line 158: the concatenated matches
  assigned,    \* per worker index, the file paths its shard yields
  src,         \* iterator of shard + repeat: [epoch, pos]
  fbuf,        \* buffer of the filename shuffle (a bag)
  slots,       \* interleave: per slot the open file and the records read
  cycle_index, \* interleave: the current slot
  end_of_input,\* interleave: the file-path sequence is exhausted
  rbuf,        \* buffer of the record shuffle (a bag)
  pbuf,        \* prefetch buffer: decoded results in order
  out,         \* what the consumer has pulled, in order
  produced     \* the records the interleave stage has produced (a bag)

listVars == <<content, examples>>
xmlVars == <<xml, parsed>>
argVars == <<input_files, num_workers, worker_index, config, bad>>
iterVars == <<src, fbuf, slots, cycle_index, end_of_input, rbuf, pbuf, out, produced>>
pipeVars == <<argVars, filenames, assigned, iterVars>>
vars == <<pc, listVars, xmlVars, pipeVars>>

\* ------------------------------------------------------------------ bounds
MaxFileLen == 4      \* characters in the examples-list file
MaxChildren == 3     \* children of the root annotation node

\* ----------------------------------------------------------------- helpers
RECURSIVE SeqsUpTo(_, _)
SeqsUpTo(S, n) ==
  IF n = 0 THEN {<<>>}
  ELSE LET shorter == SeqsUpTo(S, n - 1)
       IN  shorter \cup {Append(q, e) : q \in {r \in shorter : Len(r) = n - 1}, e \in S}

\* The variables of read_dataset where it is not the function under study.
PipeUnused ==
  /\ input_files = <<>> /\ num_workers = 1 /\ worker_index = 0
  /\ config = <<>> /\ bad = {} /\ filenames = <<>> /\ assigned = <<>>
  /\ src = <<>> /\ fbuf = <<>> /\ slots = <<>> /\ cycle_index = 0
  /\ end_of_input = FALSE /\ rbuf = <<>> /\ pbuf = <<>> /\ out = <<>>
  /\ produced = <<>>

Drop(s, n) == SubSeq(s, n + 1, Len(s))
Take(s, n) == SubSeq(s, 1, n)

\* ======================================================= read_examples_list
\* A file is a sequence of characters; a str is a sequence of characters.
Alphabet == {"a", "1", " ", "\t", "\n"}
Whitespace == {" ", "\t", "\n"}

\* fid.readlines(): every line keeps its terminating "\n"; a last line
\* without one is returned too.
RECURSIVE readlines(_)
readlines(s) ==
  IF s = <<>> THEN <<>>
  ELSE LET nl == {i \in 1..Len(s) : s[i] = "\n"}
       IN  IF nl = {} THEN <<s>>
           ELSE LET k == CHOOSE i \in nl : \A j \in nl : i <= j
                IN  <<Take(s, k)>> \o readlines(Drop(s, k))

\* str.strip(): leading and trailing whitespace removed.
RECURSIVE lstrip(_)
lstrip(s) == IF s # <<>> /\ s[1] \in Whitespace THEN lstrip(Tail(s)) ELSE s

RECURSIVE rstrip(_)
rstrip(s) ==
  IF s # <<>> /\ s[Len(s)] \in Whitespace THEN rstrip(Take(s, Len(s) - 1)) ELSE s

strip(s) == rstrip(lstrip(s))

\* The separator of line 94.
SplitSep == {" "}

\* str.split(sep)[0]: the characters before the first separator.
RECURSIVE split0(_)
split0(s) ==
  IF s = <<>> \/ s[1] \in SplitSep THEN <<>> ELSE <<s[1]>> \o split0(Tail(s))

\* [line.strip().split(' ')[0] for line in lines]
read_examples_list(text) ==
  LET lines == readlines(text)
  IN  [i \in 1..Len(lines) |-> split0(strip(lines[i]))]

ReadExamplesList ==
  /\ pc = "start"
  /\ examples' = read_examples_list(content)
  /\ pc' = "done"
  /\ UNCHANGED <<content, xmlVars, pipeVars>>

InitList ==
  /\ pc = "start"
  /\ content \in SeqsUpTo(Alphabet, MaxFileLen)
  /\ examples = <<>>
  /\ xml = <<>> /\ parsed = <<>>
  /\ PipeUnused

NextList == ReadExamplesList

SpecList == InitList /\ [][NextList]_vars

\* ----------------------------------------------------------------- C2
\* The first whitespace-delimited token of a line: skip leading whitespace,
\* then take characters up to the next whitespace character of any kind.
RECURSIVE TakeToken(_)
TakeToken(s) ==
  IF s = <<>> \/ s[1] \in Whitespace THEN <<>> ELSE <<s[1]>> \o TakeToken(Tail(s))

FirstToken(line) == TakeToken(lstrip(line))

\* C2: read_examples_list returns one entry per line, in file order, and the
\* entry of a line is its first whitespace-delimited token, whatever
\* whitespace character separates the tokens.
C2_FirstWhitespaceToken ==
  pc = "done" =>
    LET lines == readlines(content)
    IN  /\ Len(examples) = Len(lines)
        /\ \A i \in 1..Len(lines) : examples[i] = FirstToken(lines[i])

\* ============================================== recursive_parse_xml_to_dict
\* An lxml element: tag, text and the sequence of its children.  Parsed
\* values are tagged with their Python type: str, dict or list.
Tags == {"object", "name"}
Texts == {"A", "B"}

Node(t, x, c) == [tag |-> t, text |-> x, children |-> c]
Str(s) == [kind |-> "str", val |-> s]
Dict(f) == [kind |-> "dict", val |-> f]
List(q) == [kind |-> "list", val |-> q]

Leaves == {Node(t, x, <<>>) : t \in Tags, x \in Texts}
SmallLeaves == {Node(t, "A", <<>>) : t \in Tags}
InnerNodes ==
  {Node(t, "", c) : t \in Tags,
                    c \in {<<a>> : a \in SmallLeaves}
                          \cup {<<a, b>> : a \in SmallLeaves, b \in SmallLeaves}}
Roots ==
  {Node(t, "", c) : t \in {"annotation", "object"},
                    c \in SeqsUpTo(Leaves \cup InnerNodes, MaxChildren) \ {<<>>}}
XmlInputs == Leaves \cup Roots

\* result[key] = value
SetItem(d, key, value) ==
  [k \in DOMAIN d \cup {key} |-> IF k = key THEN value ELSE d[k]]

\* Line 114: the tags that accumulate into a list.
IsListTag(t) == t = "object"

\* Variants of Store: a repeated tag keeps its first value; a list grows at
\* its front.
StoreFirstWins(result, t, v) ==
  IF ~IsListTag(t)
    THEN (IF t \in DOMAIN result THEN result ELSE SetItem(result, t, v))
    ELSE LET old == IF t \in DOMAIN result THEN result[t].val ELSE <<>>
         IN  SetItem(result, t, List(Append(old, v)))

StorePrepend(result, t, v) ==
  IF ~IsListTag(t)
    THEN SetItem(result, t, v)
    ELSE LET old == IF t \in DOMAIN result THEN result[t].val ELSE <<>>
         IN  SetItem(result, t, List(<<v>> \o old))

\* Lines 114-119 for one child with tag t whose parsed value is v.
Store(result, t, v) ==
  IF ~IsListTag(t)
    THEN SetItem(result, t, v)
    ELSE LET old == IF t \in DOMAIN result THEN result[t].val ELSE <<>>
         IN  SetItem(result, t, List(Append(old, v)))

\* Lines 97-120.  The value is the dict {xml.tag: ...}; ParseChildren is the
\* for loop of lines 112-119 from child i on.
RECURSIVE recursive_parse_xml_to_dict(_), ParseChildren(_, _, _)
recursive_parse_xml_to_dict(node) ==
  IF Len(node.children) = 0
    THEN (node.tag :> Str(node.text))
    ELSE (node.tag :> Dict(ParseChildren(node.children, 1, <<>>)))

ParseChildren(children, i, result) ==
  IF i > Len(children) THEN result
  ELSE LET child == children[i]
           child_result == recursive_parse_xml_to_dict(child)
       IN  ParseChildren(children, i + 1,
                         Store(result, child.tag, child_result[child.tag]))

ParseXml ==
  /\ pc = "start"
  /\ parsed' = recursive_parse_xml_to_dict(xml)
  /\ pc' = "done"
  /\ UNCHANGED <<listVars, xml, pipeVars>>

InitXml ==
  /\ pc = "start"
  /\ xml \in XmlInputs
  /\ parsed = <<>>
  /\ content = <<>> /\ examples = <<>>
  /\ PipeUnused

NextXml == ParseXml

SpecXml == InitXml /\ [][NextXml]_vars

\* ------------------------------------------------------------- C3, C4
\* The parsed value of a child, stated without the parser's loop: the text
\* of a leaf, and for an inner node the dict stored under its tag.
ParsedValue(child) == recursive_parse_xml_to_dict(child)[child.tag]

\* The positions of the children of `node` that carry tag t, in document order.
RECURSIVE PositionsOf(_, _, _)
PositionsOf(children, t, i) ==
  IF i > Len(children) THEN <<>>
  ELSE (IF children[i].tag = t THEN <<i>> ELSE <<>>) \o PositionsOf(children, t, i + 1)

\* C3: for a node with at least one child the result is a single-entry dict
\* from the node's tag to a dict in which "object", when k >= 1 children
\* carry it, holds a list of exactly k elements, the i-th being the parsed
\* value of the i-th "object" child in document order, and every other key
\* holds a single parsed value, never a list.
C3_ObjectsAccumulate ==
  (pc = "done" /\ Len(xml.children) > 0) =>
    LET kids == xml.children
        objs == PositionsOf(kids, "object", 1)
    IN  /\ DOMAIN parsed = {xml.tag}
        /\ parsed[xml.tag].kind = "dict"
        /\ LET d == parsed[xml.tag].val
           IN  /\ DOMAIN d = {kids[i].tag : i \in 1..Len(kids)}
               /\ Len(objs) >= 1 =>
                    /\ d["object"].kind = "list"
                    /\ Len(d["object"].val) = Len(objs)
                    /\ \A i \in 1..Len(objs) :
                         d["object"].val[i] = ParsedValue(kids[objs[i]])
               /\ \A t \in DOMAIN d \ {"object"} :
                    /\ d[t].kind # "list"
                    /\ \E i \in 1..Len(kids) : kids[i].tag = t /\ d[t] = ParsedValue(kids[i])

\* Witness of C3: two "object" children with different values and a
\* non-object child between them have been parsed.
C3_Witness ==
  /\ pc = "done"
  /\ Len(xml.children) = 3
  /\ xml.children[1].tag = "object"
  /\ xml.children[2].tag = "name"
  /\ xml.children[3].tag = "object"
  /\ xml.children[1] # xml.children[3]
  /\ Len(xml.children[3].children) > 0
  /\ Len(parsed[xml.tag].val["object"].val) = 2

\* C4: a tag other than "object" that occurs more than once among the
\* children of one node holds the parsed value of the last such child.
C4_LastOccurrenceWins ==
  (pc = "done" /\ Len(xml.children) > 0) =>
    \A t \in Tags \ {"object"} :
      LET occ == PositionsOf(xml.children, t, 1)
      IN  Len(occ) > 1 =>
            parsed[xml.tag].val[t] = ParsedValue(xml.children[occ[Len(occ)]])

\* Witness of C4: a repeated "name" child whose first and last occurrences
\* differ has been parsed.
C4_Witness ==
  /\ pc = "done"
  /\ Len(xml.children) = 3
  /\ \A i \in 1..3 : xml.children[i].tag = "name"
  /\ ParsedValue(xml.children[1]) # ParsedValue(xml.children[3])
  /\ ParsedValue(xml.children[2]) # ParsedValue(xml.children[3])

\* ============================================================ read_dataset
\* The files on disk, in the order tf.matching_files lists them, and the
\* number of records file_read_func yields for each.
FileOrder == <<"a", "b", "c">>
Files == {FileOrder[i] : i \in DOMAIN FileOrder}
RecordCount == [f \in Files |-> CASE f = "a" -> 2 [] f = "b" -> 1 [] OTHER -> 0]
AllRecords == UNION {{<<f, i>> : i \in 1..RecordCount[f]} : f \in Files}

Min(a, b) == IF a <= b THEN a ELSE b
Max(a, b) == IF a >= b THEN a ELSE b
Range(q) == {q[i] : i \in DOMAIN q}
Occurrences(q, e) == Cardinality({i \in DOMAIN q : q[i] = e})

\* tf.matching_files(pattern); a pattern is given by the set of files it matches.
matching_files(pattern) == SelectSeq(FileOrder, LAMBDA f : f \in pattern)

\* Line 158: tf.concat([tf.matching_files(pattern) for pattern in input_files], 0)
RECURSIVE concat_matches(_)
concat_matches(patterns) ==
  IF patterns = <<>> THEN <<>>
  ELSE matching_files(Head(patterns)) \o concat_matches(Tail(patterns))

\* Variant of ShardKeeps: positions counted from 1.
ShardKeepsNext(p, n, index) == (p + 1) % n = index

\* Line 161: dataset.shard(num_workers, worker_index) keeps the elements
\* whose 0-based position p has p mod num_workers = worker_index.
ShardKeeps(p, n, index) == p % n = index

RECURSIVE ShardFrom(_, _, _, _)
ShardFrom(fs, n, index, p) ==
  IF p >= Len(fs) THEN <<>>
  ELSE (IF ShardKeeps(p, n, index) THEN <<fs[p + 1]>> ELSE <<>>)
       \o ShardFrom(fs, n, index, p + 1)

shard(fs, n, index) == ShardFrom(fs, n, index, 0)

\* ------------------------------------------------ sharding over all workers
MaxPatterns == 2
MaxWorkers == 3

MatchFiles ==
  /\ pc = "start"
  /\ filenames' = concat_matches(input_files)
  /\ pc' = "sharding"
  /\ UNCHANGED <<listVars, xmlVars, argVars, assigned, iterVars>>

\* Worker w builds its dataset: lines 160-161 with worker_index = w.
ShardWorker(w) ==
  /\ pc = "sharding"
  /\ w \notin DOMAIN assigned
  /\ assigned' = (w :> shard(filenames, num_workers, w)) @@ assigned
  /\ UNCHANGED <<pc, listVars, xmlVars, argVars, filenames, iterVars>>

InitShard ==
  /\ pc = "start"
  /\ content = <<>> /\ examples = <<>> /\ xml = <<>> /\ parsed = <<>>
  /\ input_files \in SeqsUpTo(SUBSET Files, MaxPatterns) \ {<<>>}
  /\ num_workers \in 1..MaxWorkers
  /\ worker_index = 0
  /\ config = <<>> /\ bad = {} /\ filenames = <<>> /\ assigned = <<>>
  /\ src = <<>> /\ fbuf = <<>> /\ slots = <<>> /\ cycle_index = 0
  /\ end_of_input = FALSE /\ rbuf = <<>> /\ pbuf = <<>> /\ out = <<>>
  /\ produced = <<>>

NextShard == MatchFiles \/ \E w \in 0..(num_workers - 1) : ShardWorker(w)

SpecShard == InitShard /\ [][NextShard]_vars

\* ----------------------------------------------------------------- C1
AllSharded == pc = "sharding" /\ DOMAIN assigned = 0..(num_workers - 1)

\* C1 as stated: for every expanded file sequence the files assigned to two
\* distinct worker indices are disjoint, and the union over all worker
\* indices is the full expanded file set.
C1_FilesDisjoint ==
  /\ \A i \in DOMAIN assigned : \A j \in DOMAIN assigned :
       i # j => Range(assigned[i]) \cap Range(assigned[j]) = {}
  /\ AllSharded => UNION {Range(assigned[w]) : w \in DOMAIN assigned} = Range(filenames)

NoDuplicates(q) == \A i \in DOMAIN q : \A j \in DOMAIN q : q[i] = q[j] => i = j

\* C1 amended: worker w is assigned exactly the elements at the positions p
\* with p mod num_workers = w, in order, so the positions of two workers are
\* disjoint and together cover the sequence; the union of the assigned files
\* is the full file set; and the file sets of two workers are disjoint
\* whenever no file occurs twice in the expanded sequence.
C1_PositionsPartition ==
  /\ \A w \in DOMAIN assigned :
       LET pos == {p \in 0..(Len(filenames) - 1) : p % num_workers = w}
       IN  /\ Len(assigned[w]) = Cardinality(pos)
           /\ \A k \in 1..Len(assigned[w]) :
                assigned[w][k] = filenames[(k - 1) * num_workers + w + 1]
  /\ AllSharded => UNION {Range(assigned[w]) : w \in DOMAIN assigned} = Range(filenames)
  /\ NoDuplicates(filenames) =>
       \A i \in DOMAIN assigned : \A j \in DOMAIN assigned :
         i # j => Range(assigned[i]) \cap Range(assigned[j]) = {}

\* Witness of C1: three workers have all taken their shards of a sequence of
\* distinct files, and each got a file.
C1_Witness ==
  /\ AllSharded
  /\ num_workers = 3
  /\ NoDuplicates(filenames)
  /\ \A w \in DOMAIN assigned : Len(assigned[w]) > 0

\* ------------------------------------------------------ the input pipeline
MaxEpochs == 2       \* config.num_epochs ranges over 0..MaxEpochs
MaxReaders == 3      \* config.num_readers ranges over 1..MaxReaders
MaxShards == 2       \* num_workers ranges over 1..MaxShards
MaxPulls == 4        \* pulls of the consumer of an unbounded sequence

END == "END"
NoSlot == [file |-> "none", pos |-> 0]
Forever == -1

\* Variant of CycleLength: the reader count taken as it is.
CycleLengthUnclamped(cfg, fs) == cfg.num_readers

\* Lines 170-171: tf.minimum(config.num_readers, tf.size(filenames))
CycleLength(cfg, fs) == Min(cfg.num_readers, Len(fs))

\* Variant of RepeatCount: num_epochs passed on as it is (repeat(0) is empty).
RepeatCountNoneDropped(cfg) == cfg.num_epochs

\* Line 162: config.num_epochs or None; repeat(None) repeats indefinitely.
RepeatCount(cfg) == IF cfg.num_epochs = 0 THEN Forever ELSE cfg.num_epochs

\* Lines 160-162: one GetNext of from_tensor_slices.shard.repeat over the
\* shard `files`, from iterator state st; the value is [out, st].  An
\* indefinite repeat of an empty input ends at once.
RECURSIVE RepeatNext(_, _, _)
RepeatNext(files, count, st) ==
  IF count = Forever
    THEN IF Len(files) = 0
           THEN [out |-> END, st |-> st]
           ELSE [out |-> files[st.pos + 1],
                 st |-> [st EXCEPT !.pos = (st.pos + 1) % Len(files)]]
    ELSE IF st.epoch >= count
           THEN [out |-> END, st |-> st]
           ELSE IF st.pos < Len(files)
                  THEN [out |-> files[st.pos + 1], st |-> [st EXCEPT !.pos = st.pos + 1]]
                  ELSE RepeatNext(files, count, [epoch |-> st.epoch + 1, pos |-> 0])

MyShard == shard(filenames, num_workers, worker_index)
SourceNext(st) == RepeatNext(MyShard, RepeatCount(config), st)

\* Lines 163-165: the filename shuffle fills its buffer from the repeated
\* sequence up to filenames_shuffle_buffer_size before it yields an element.
RECURSIVE FillFilenames(_, _)
FillFilenames(st, buf) ==
  IF BagCardinality(buf) >= config.filenames_shuffle_buffer_size
    THEN [src |-> st, fbuf |-> buf]
    ELSE LET r == SourceNext(st)
         IN  IF r.out = END THEN [src |-> r.st, fbuf |-> buf]
             ELSE FillFilenames(r.st, buf (+) SetToBag({r.out}))

\* One GetNext of the file-path sequence the interleave reads: the possible
\* [out, src, fbuf].  With shuffle any buffered path may come next.
FilenameNext ==
  IF config.shuffle
    THEN LET f == FillFilenames(src, fbuf)
         IN  IF BagCardinality(f.fbuf) = 0
               THEN {[out |-> END, src |-> f.src, fbuf |-> f.fbuf]}
               ELSE {[out |-> x, src |-> f.src, fbuf |-> f.fbuf (-) SetToBag({x})] :
                       x \in BagToSet(f.fbuf)}
    ELSE LET r == SourceNext(src)
         IN  {[out |-> r.out, src |-> r.st, fbuf |-> fbuf]}

\* Variant of Decode: a failure of decode_func is swallowed.
DecodeSwallowsError(rec) == <<"example", rec[1], rec[2]>>

\* Line 180: dataset.map(decode_func); decode_func raises on the records of
\* bad, and the map yields that error as the status of the element.
Decode(rec) == <<IF rec \in bad THEN "error" ELSE "example", rec[1], rec[2]>>
IsError(result) == result[1] = "error"
RecordOf(result) == <<result[2], result[3]>>

\* Line 181: prefetch(config.prefetch_buffer_size); with size 0 the element
\* the consumer is waiting for is still produced.
Capacity == Max(config.prefetch_buffer_size, 1)

NumOpen == Cardinality({i \in DOMAIN slots : slots[i] # NoSlot})
InterleaveDone == end_of_input /\ NumOpen = 0

\* The stage after the interleave takes another record: the record shuffle
\* while its buffer is not full, else the map into the prefetch buffer.
Wanted ==
  IF config.shuffle THEN BagCardinality(rbuf) < config.shuffle_buffer_size
  ELSE Len(pbuf) < Capacity

NextInCycle(i) == (i + 1) % Cardinality(DOMAIN slots)

\* Variant of AdvancePosition: the slot is kept until its file is exhausted.
AdvanceStays(i) == i

\* Line 174: block_length = 1: after one record the cycle moves on.
AdvancePosition(i) == NextInCycle(i)

\* Lines 158-181 and the creation of the iterator: the interleave rejects a
\* cycle_length that is not positive.
ReadDataset ==
  /\ pc = "start"
  /\ filenames' = concat_matches(input_files)
  /\ LET cycle_length == CycleLength(config, filenames')
     IN  IF cycle_length > 0
           THEN /\ pc' = "run"
                /\ slots' = [i \in 0..(cycle_length - 1) |-> NoSlot]
           ELSE /\ pc' = "error"
                /\ slots' = <<>>
  /\ src' = [epoch |-> 0, pos |-> 0]
  /\ fbuf' = EmptyBag /\ rbuf' = EmptyBag
  /\ cycle_index' = 0 /\ end_of_input' = FALSE
  /\ pbuf' = <<>> /\ out' = <<>> /\ produced' = EmptyBag
  /\ UNCHANGED <<listVars, xmlVars, argVars, assigned>>

\* Interleave, current slot empty: take the next file path and open it.
InterleaveOpen ==
  /\ pc = "run" /\ Wanted
  /\ slots[cycle_index] = NoSlot /\ ~end_of_input
  /\ \E r \in FilenameNext :
       /\ src' = r.src /\ fbuf' = r.fbuf
       /\ IF r.out = END
            THEN end_of_input' = TRUE /\ UNCHANGED slots
            ELSE /\ slots' = [slots EXCEPT ![cycle_index] = [file |-> r.out, pos |-> 0]]
                 /\ UNCHANGED end_of_input
  /\ UNCHANGED <<pc, listVars, xmlVars, argVars, filenames, assigned,
                 cycle_index, rbuf, pbuf, out, produced>>

\* Interleave, current slot has a record left: produce it.
InterleaveEmit ==
  /\ pc = "run" /\ Wanted
  /\ slots[cycle_index] # NoSlot
  /\ slots[cycle_index].pos < RecordCount[slots[cycle_index].file]
  /\ LET s == slots[cycle_index]
         rec == <<s.file, s.pos + 1>>
     IN  /\ slots' = [slots EXCEPT ![cycle_index].pos = s.pos + 1]
         /\ produced' = produced (+) SetToBag({rec})
         /\ IF config.shuffle
              THEN rbuf' = rbuf (+) SetToBag({rec}) /\ UNCHANGED pbuf
              ELSE pbuf' = Append(pbuf, Decode(rec)) /\ UNCHANGED rbuf
  /\ cycle_index' = AdvancePosition(cycle_index)
  /\ UNCHANGED <<pc, listVars, xmlVars, argVars, filenames, assigned,
                 src, fbuf, end_of_input, out>>

\* Interleave, current slot's file is exhausted: close it and move on.
InterleaveClose ==
  /\ pc = "run" /\ Wanted
  /\ slots[cycle_index] # NoSlot
  /\ slots[cycle_index].pos >= RecordCount[slots[cycle_index].file]
  /\ slots' = [slots EXCEPT ![cycle_index] = NoSlot]
  /\ cycle_index' = NextInCycle(cycle_index)
  /\ UNCHANGED <<pc, listVars, xmlVars, argVars, filenames, assigned,
                 src, fbuf, end_of_input, rbuf, pbuf, out, produced>>

\* Interleave, current slot empty and no file path left: move on.
InterleaveSkip ==
  /\ pc = "run" /\ Wanted
  /\ slots[cycle_index] = NoSlot /\ end_of_input /\ NumOpen > 0
  /\ cycle_index' = NextInCycle(cycle_index)
  /\ UNCHANGED <<pc, listVars, xmlVars, argVars, filenames, assigned,
                 src, fbuf, slots, end_of_input, rbuf, pbuf, out, produced>>

\* Lines 176-180: the record shuffle yields any buffered record once its
\* buffer is full or its input has ended; the record is decoded.
ShuffleEmit ==
  /\ pc = "run" /\ config.shuffle
  /\ Len(pbuf) < Capacity
  /\ BagCardinality(rbuf) >= config.shuffle_buffer_size \/ InterleaveDone
  /\ \E rec \in BagToSet(rbuf) :
       /\ rbuf' = rbuf (-) SetToBag({rec})
       /\ pbuf' = Append(pbuf, Decode(rec))
  /\ UNCHANGED <<pc, listVars, xmlVars, argVars, filenames, assigned,
                 src, fbuf, slots, cycle_index, end_of_input, out, produced>>

\* The returned dataset can be pulled again after any element, also one
\* whose decode raised: the error is the status of that element alone.  An
\* unbounded sequence is followed for MaxPulls pulls.
PullAllowed == RepeatCount(config) # Forever \/ Len(out) < MaxPulls

\* The consumer pulls the next element: a decoded record or decode's error.
Pull ==
  /\ pc = "run" /\ pbuf # <<>>
  /\ PullAllowed
  /\ out' = Append(out, Head(pbuf))
  /\ pbuf' = Tail(pbuf)
  /\ UNCHANGED <<pc, listVars, xmlVars, argVars, filenames, assigned,
                 src, fbuf, slots, cycle_index, end_of_input, rbuf, produced>>

\* The consumer pulls and the sequence is exhausted.
PullEnd ==
  /\ pc = "run" /\ pbuf = <<>>
  /\ InterleaveDone /\ BagCardinality(rbuf) = 0
  /\ pc' = "exhausted"
  /\ UNCHANGED <<listVars, xmlVars, pipeVars>>

PrefetchSizes == {0, 2}

PipeInputFiles ==
  {<<{}>>, <<{"a"}>>, <<{"a", "b"}>>, <<{"a", "b", "c"}>>, <<{"b"}, {"a", "b"}>>}

BufferSizes == {1, 2}
ShuffledEpochs == {0, 1}
BadChoices == {{}, {<<"a", 1>>}}

\* The InputReader configurations: without shuffle the buffer sizes of the
\* shuffles are not read.
Configs ==
  [num_epochs : 0..MaxEpochs, shuffle : {FALSE},
   filenames_shuffle_buffer_size : {1}, shuffle_buffer_size : {1},
   num_readers : 1..MaxReaders, prefetch_buffer_size : PrefetchSizes]
  \cup
  [num_epochs : ShuffledEpochs, shuffle : {TRUE},
   filenames_shuffle_buffer_size : BufferSizes, shuffle_buffer_size : BufferSizes,
   num_readers : 1..MaxReaders, prefetch_buffer_size : PrefetchSizes]

InitPipe ==
  /\ pc = "start"
  /\ content = <<>> /\ examples = <<>> /\ xml = <<>> /\ parsed = <<>>
  /\ input_files \in PipeInputFiles
  /\ num_workers \in 1..MaxShards
  /\ worker_index \in 0..(num_workers - 1)
  /\ config \in Configs
  /\ bad \in BadChoices
  /\ filenames = <<>> /\ assigned = <<>>
  /\ src = <<>> /\ fbuf = <<>> /\ slots = <<>> /\ cycle_index = 0
  /\ end_of_input = FALSE /\ rbuf = <<>> /\ pbuf = <<>> /\ out = <<>>
  /\ produced = <<>>

NextPipe ==
  \/ ReadDataset
  \/ InterleaveOpen
  \/ InterleaveEmit
  \/ InterleaveClose
  \/ InterleaveSkip
  \/ ShuffleEmit
  \/ Pull
  \/ PullEnd

SpecPipe == InitPipe /\ [][NextPipe]_vars

\* The pipeline stages run whenever they can (the runtime's threads are
\* never starved) and the consumer keeps pulling.
FairPipe == SpecPipe /\ WF_vars(NextPipe)

\* --------------------------------------------------------- C5 .. C10
\* How often record rec occurs among the results of q.
CountIn(q, rec) == Cardinality({k \in DOMAIN q : RecordOf(q[k]) = rec})
Started == pc \in {"run", "exhausted"}
Finished == pc \in {"exhausted", "error"}

\* C5 as stated: with num_epochs = n > 0 and a decode_func that never fails,
\* the consumer's pulling ends in exhaustion, and by then it has received
\* exactly n decoded copies of each record of each file of the worker's
\* shard and nothing else.
C5_ExactlyNCopies ==
  (config.num_epochs > 0 /\ bad = {} /\ Finished) =>
    /\ pc = "exhausted"
    /\ \A k \in 1..Len(out) : ~IsError(out[k])
    /\ \A rec \in AllRecords :
         CountIn(out, rec) = config.num_epochs * Occurrences(MyShard, rec[1])

\* The same where at least one file is matched.
C5_WhenFilesMatch ==
  (config.num_epochs > 0 /\ bad = {} /\ Finished /\ filenames # <<>>) =>
    /\ pc = "exhausted"
    /\ \A k \in 1..Len(out) : ~IsError(out[k])
    /\ \A rec \in AllRecords :
         CountIn(out, rec) = config.num_epochs * Occurrences(MyShard, rec[1])

\* A bounded sequence of at least one matched file is eventually exhausted.
C5_Terminates ==
  (pc = "run" /\ config.num_epochs > 0) ~> (pc = "exhausted")

\* C6: with num_epochs 0 (unset) and a shard of at least one file the
\* file-path sequence after the repeat never ends: whatever has been pulled,
\* the next pull yields another file path of the shard.
C6_RepeatUnbounded ==
  (pc = "run" /\ config.num_epochs = 0 /\ Len(MyShard) > 0) =>
    /\ ~end_of_input
    /\ SourceNext(src).out \in Range(MyShard)
    /\ \A r \in FilenameNext : r.out # END

\* Witness of C6: an unbounded sequence over a shard of distinct files has
\* yielded some file a second time.
C6_Witness ==
  /\ pc = "run" /\ config.num_epochs = 0
  /\ NoDuplicates(MyShard)
  /\ \E rec \in AllRecords : CopiesIn(rec, produced) >= 2

\* C7 as stated: when no pattern matches any file the sequence is empty and
\* exhausted on the first pull, without an error.
C7_EmptyNotAnError ==
  (pc # "start" /\ filenames = <<>>) => (pc # "error" /\ out = <<>> /\ pbuf = <<>>)

C9_OpenFiles == Started => NumOpen <= Min(config.num_readers, Len(filenames))

C9_Step ==
  LET ci == cycle_index
      cl == Cardinality(DOMAIN slots)
      emitted == /\ ci \in DOMAIN slots /\ slots[ci] # NoSlot
                 /\ slots'[ci] # NoSlot /\ slots'[ci] # slots[ci]
      seq == out \o pbuf
  IN  /\ \A i \in DOMAIN slots :
           slots'[i] # slots[i] =>
             /\ i = ci
             /\ \/ /\ slots[i] = NoSlot
                   /\ slots'[i].file \in Files /\ slots'[i].pos = 0
                   /\ cycle_index' = ci
                \/ /\ slots[i] # NoSlot
                   /\ slots[i].pos < RecordCount[slots[i].file]
                   /\ slots'[i] = [slots[i] EXCEPT !.pos = @ + 1]
                   /\ cycle_index' = (ci + 1) % cl
                \/ /\ slots[i] # NoSlot
                   /\ slots[i].pos = RecordCount[slots[i].file]
                   /\ slots'[i] = NoSlot
                   /\ cycle_index' = (ci + 1) % cl
      /\ cycle_index' # ci =>
           /\ cycle_index' = (ci + 1) % cl
           /\ slots'[ci] # slots[ci] \/ (slots[ci] = NoSlot /\ end_of_input)
      /\ (pc = "run" /\ ~config.shuffle) =>
           IF emitted
             THEN out' \o pbuf' =
                    Append(seq, Decode(<<slots[ci].file, slots[ci].pos + 1>>))
             ELSE out' \o pbuf' = seq

C9_RoundRobin == []C9_OpenFiles /\ [][C9_Step]_vars

\* Witness of C9: two slots, no shuffle; the output alternated between the
\* files a and b, one record at a time, and the sequence is exhausted.
C9_Witness ==
  /\ pc = "exhausted" /\ ~config.shuffle
  /\ Cardinality(DOMAIN slots) = 2
  /\ Len(out) >= 3
  /\ out[1][2] = "a" /\ out[2][2] = "b" /\ out[3][2] = "a"

\* C10 as stated: when num_readers exceeds the file count, records are
\* repeated in the output within one traversal.
C10_ReadersExceedRepeats ==
  (config.num_readers > Len(filenames) /\ config.num_epochs = 1
   /\ pc = "exhausted" /\ Len(out) >= 2) =>
    \E k \in 1..Len(out) : \E l \in 1..Len(out) :
      k # l /\ RecordOf(out[k]) = RecordOf(out[l])

\* C10 amended: when num_readers exceeds the file count the interleave has
\* only as many slots as there are files, so never more files are open than
\* were matched, and with num_epochs = n > 0 no record is produced more
\* often than n times per occurrence of its file in the shard.
C10_ClampedNoRepetition ==
  (Started /\ config.num_readers > Len(filenames)) =>
    /\ Cardinality(DOMAIN slots) = Len(filenames)
    /\ NumOpen <= Len(filenames)
    /\ config.num_epochs > 0 =>
         \A rec \in AllRecords :
           CopiesIn(rec, produced) <= config.num_epochs * Occurrences(MyShard, rec[1])

\* Witness of C10: more readers than files, one epoch over two or more
\* distinct files, exhausted with every record delivered exactly once.
C10_Witness ==
  /\ pc = "exhausted"
  /\ config.num_readers > Len(filenames)
  /\ config.num_epochs = 1 /\ num_workers = 1
  /\ Len(filenames) >= 2 /\ NoDuplicates(filenames)
  /\ Len(out) >= 3
  /\ \A rec \in AllRecords : CountIn(out, rec) <= 1

====
